---- MODULE Spec2Model ----
(***************************************************************************)
(* PassStore: the one-time-password core (src/otpauth.py), the credential  *)
(* parsing and passcode countdown of the window (src/main.py) and the      *)
(* change tracking of a stored record (src/PassDB.py).                     *)
(*                                                                         *)
(* An OtpAuth object holds a Base32 secret text.  Its methods are pure     *)
(* computations over that secret and their arguments; the model calls      *)
(* them with arguments drawn from small sets and records, per call, the    *)
(* operation, its arguments and its outcome (a returned value or a raised  *)
(* exception).                                                             *)
(*                                                                         *)
(* Python values are tagged records [t |-> type, v |-> value]; text and    *)
(* byte strings are sequences (of one-character strings, of 0..255).       *)
(***************************************************************************)
EXTENDS Integers, Sequences, FiniteSets, TLC

VARIABLES
    secret,     \* OtpAuth.secret: Base32 text, a sequence of characters
    raw,        \* the bytes the secret text was encoded from (encoded_secret)
    hmacTable,  \* the keyed hash of the platform, see HmacDigest
    op,         \* the call being observed, "idle" between calls
    args,       \* its arguments
    result,     \* its outcome
    prev,       \* the passcode generation of the call before it, or NoPrev
    thr,        \* concurrent callers of one OtpAuth object: per thread its call
    clock,      \* main.py: the wall clock of the UI, whole seconds
    tv,         \* main.py: per tree row, what its extra column displays
    timers,     \* main.py: the callbacks scheduled with after() and not yet run
    tv_updater, \* main.py: MainApp._tv_updater, the id after() returned last
    rec,        \* PassDB.py: a KeychainRecord
    sinceSave   \* the fields a setter really changed since the last save

\* the state outside the observed call on the OtpAuth object
envVars == <<thr, clock, tv, timers, tv_updater, rec, sinceSave>>

vars == <<secret, raw, hmacTable, op, args, result, prev, envVars>>

----------------------------------------------------------------------------
(* Bounds of the model *)

MaxSecretLen == 5   \* raw secrets have 1..MaxSecretLen bytes
MaxCounter   == 2   \* HOTP counters -1..MaxCounter
MaxTime      == 3   \* timestamps 0..MaxTime (seconds)
MaxPeriod    == 2   \* TOTP periods 0..MaxPeriod (seconds)
MaxLast      == 1   \* valid_hotp: last in 0..MaxLast
MaxTrials    == 2   \* valid_hotp: trials in 0..MaxTrials
NSlots       == 2   \* number of independent entries of the keyed-hash table
MaxDigestLen == 2   \* compare_digest: byte strings of 0..MaxDigestLen bytes
MaxRfcTime   == 119 \* timestamps 0..MaxRfcTime for the object with the RFC secret
UiLead       == 1   \* the window opens UiLead seconds before a TOTP slot ends
UiSpan       == 1   \* and is watched until UiSpan seconds after that
MaxTimers    == 2   \* callbacks scheduled with after() at one time
MaxRowId     == 2   \* row ids 1..MaxRowId that an INSERT may give

----------------------------------------------------------------------------
(* Values of the program *)

DefaultPeriod == 30 \* the default of period in totp and generate_totp

----------------------------------------------------------------------------
(* Python values *)

None == [t |-> "NoneType", v |-> 0]
PyFalse == [t |-> "bool", v |-> 0]
PyTrue == [t |-> "bool", v |-> 1]
PyInt(n) == [t |-> "int", v |-> n]
PyStr(s) == [t |-> "str", v |-> s]
PyBytesOf(b) == [t |-> "bytes", v |-> b]
PyTuple(s) == [t |-> "tuple", v |-> s]
PyBool(b) == IF b THEN PyTrue ELSE PyFalse

Return(x) == [kind |-> "return", exc |-> "", value |-> x]
Raise(e) == [kind |-> "raise", exc |-> e, value |-> None]

Returned(r) == r.kind = "return"
Raised(r) == r.kind = "raise"

\* truth value of a Python object, as `not counter` tests it
Truthy(x) ==
    CASE x.t = "NoneType" -> FALSE
      [] x.t = "bool" -> x.v = 1
      [] x.t = "int" -> x.v # 0
      [] OTHER -> Len(x.v) > 0

\* a is the same Python value as b (type first: values of different types
\* are never compared)
SameValue(a, b) == a.t = b.t /\ a.v = b.v

----------------------------------------------------------------------------
(* Characters and decimal text *)

DigitChars == <<"0", "1", "2", "3", "4", "5", "6", "7", "8", "9">>

\* U+00B2 SUPERSCRIPT TWO: str.isdigit() is True, int() rejects it
Superscript2 == "sup2"

IsDecimalChar(c) == \E i \in 1..10 : DigitChars[i] = c

\* str.isdigit() of one character
IsDigitChar(c) == IsDecimalChar(c) \/ c = Superscript2

DigitValue(c) == (CHOOSE i \in 1..10 : DigitChars[i] = c) - 1

RECURSIVE DecStr(_)
\* '%d' % n, n >= 0
DecStr(n) ==
    IF n < 10 THEN <<DigitChars[n + 1]>>
    ELSE DecStr(n \div 10) \o <<DigitChars[(n % 10) + 1]>>

\* '%d' % n: the padding of the format is lost
Format_d(n) == DecStr(n)

\* '%06d' % n, n >= 0: zero-padded on the left to at least 6 characters
Format06d(n) ==
    LET s == DecStr(n)
    IN  IF Len(s) >= 6 THEN s ELSE [i \in 1..(6 - Len(s)) |-> "0"] \o s

RECURSIVE IntOfDigits(_)
IntOfDigits(s) ==
    IF s = <<>> THEN 0
    ELSE 10 * IntOfDigits(SubSeq(s, 1, Len(s) - 1)) + DigitValue(s[Len(s)])

\* str(code)
str(code) == IF code.t = "int" THEN
                 (IF code.v < 0 THEN <<"-">> \o DecStr(0 - code.v) ELSE DecStr(code.v))
             ELSE code.v

\* int(code): an int is returned as is; text must be decimal digits only
\* (the callers pass text on which str.isdigit() holds)
int(code) ==
    IF code.t = "int" THEN Return(code)
    ELSE IF code.v # <<>> /\ \A i \in 1..Len(code.v) : IsDecimalChar(code.v[i])
         THEN Return(PyInt(IntOfDigits(code.v)))
         ELSE Raise("ValueError")

\* bytes(x): an int n gives n zero bytes, text without an encoding is a
\* TypeError, an iterable must consist of ints in 0..255
bytes(x) ==
    CASE x.t = "int" ->
            IF x.v < 0 THEN Raise("ValueError")
            ELSE Return(PyBytesOf([i \in 1..x.v |-> 0]))
      [] x.t = "bool" -> Return(PyBytesOf([i \in 1..x.v |-> 0]))
      [] x.t = "str" -> Raise("TypeError")
      [] x.t = "bytes" -> Return(x)
      [] x.t = "tuple" ->
            IF \A i \in 1..Len(x.v) : x.v[i].t = "int"
            THEN Return(PyBytesOf([i \in 1..Len(x.v) |-> x.v[i].v]))
            ELSE Raise("TypeError")
      [] OTHER -> Raise("TypeError")

----------------------------------------------------------------------------
(* Base32 (base64.b32encode / base64.b32decode) *)

B32Alphabet == <<"A", "B", "C", "D", "E", "F", "G", "H", "I", "J", "K", "L", "M",
                 "N", "O", "P", "Q", "R", "S", "T", "U", "V", "W", "X", "Y", "Z",
                 "2", "3", "4", "5", "6", "7">>

PadChar == "="

IsB32Char(c) == \E i \in 1..32 : B32Alphabet[i] = c

B32Value(c) == (CHOOSE i \in 1..32 : B32Alphabet[i] = c) - 1

Pow2(n) == CASE n = 0 -> 1 [] n = 1 -> 2 [] n = 2 -> 4 [] n = 3 -> 8
             [] n = 4 -> 16 [] n = 5 -> 32 [] n = 6 -> 64 [] n = 7 -> 128

\* the w bits of n, most significant first
BitsOf(n, w) == [i \in 1..w |-> (n \div Pow2(w - i)) % 2]

\* the number whose bits, most significant first, are b[from..from+w-1];
\* positions past the end of b are zero bits
BitsValue(b, from, w) ==
    LET bit(i) == IF from + i - 1 <= Len(b) THEN b[from + i - 1] ELSE 0
        RECURSIVE Acc(_)
        Acc(i) == IF i = 0 THEN 0 ELSE 2 * Acc(i - 1) + bit(i)
    IN  Acc(w)

RECURSIVE Flatten(_)
Flatten(ss) == IF ss = <<>> THEN <<>> ELSE Head(ss) \o Flatten(Tail(ss))

BytesToBits(b) == Flatten([i \in 1..Len(b) |-> BitsOf(b[i], 8)])

\* base64.b32encode: 5 bytes -> 8 characters; the last, partial quantum is
\* filled with zero bits and its unused characters are '='
b32encode(b) ==
    LET bits == BytesToBits(b)
        nchars == (Len(bits) + 4) \div 5
        total == 8 * ((Len(b) + 4) \div 5)
    IN  [i \in 1..total |->
            IF i <= nchars THEN B32Alphabet[BitsValue(bits, 5 * (i - 1) + 1, 5) + 1]
            ELSE PadChar]

RECURSIVE StripPad(_)
\* str.strip('=') / rstrip('=') on text whose '=' are all trailing
StripPad(s) ==
    IF s # <<>> /\ s[Len(s)] = PadChar THEN StripPad(SubSeq(s, 1, Len(s) - 1)) ELSE s

\* base64.b32decode(s): the length must be a multiple of 8, the characters
\* before the trailing '=' must be in the alphabet, the number of '=' must be
\* 0, 1, 3, 4 or 6; otherwise binascii.Error
b32decode(s) ==
    LET body == StripPad(s)
        padchars == Len(s) - Len(body)
        bits == Flatten([i \in 1..Len(s) |->
                    IF i <= Len(body) THEN BitsOf(B32Value(s[i]), 5) ELSE BitsOf(0, 5)])
        leftover == CASE padchars = 1 -> 4 [] padchars = 3 -> 3
                      [] padchars = 4 -> 2 [] padchars = 6 -> 1 [] OTHER -> 5
        nbytes == IF Len(s) = 0 THEN 0 ELSE 5 * (Len(s) \div 8) - (5 - leftover)
    IN  IF Len(s) % 8 # 0 THEN Raise("binascii.Error")
        ELSE IF \E i \in 1..Len(body) : ~IsB32Char(body[i]) THEN Raise("binascii.Error")
        ELSE IF padchars \notin {0, 1, 3, 4, 6} THEN Raise("binascii.Error")
        ELSE Return(PyBytesOf([i \in 1..nbytes |-> BitsValue(bits, 8 * (i - 1) + 1, 8)]))

\* OtpAuth.encoded_secret
encoded_secret(b) == StripPad(b32encode(b))

----------------------------------------------------------------------------
(* The keyed hash.  hmac.digest(key, msg, sha1) is a fixed function of      *)
(* (key, msg) with 20-byte values.  The model leaves the function open: it  *)
(* is any function that factors through Fingerprint, with values among      *)
(* Digests; hmacTable is chosen once and never changes.                     *)

\* cc93cf18508d94934c64b65d8ba7667fb7cde4b0, the HMAC-SHA-1 value of
\* RFC 4226 Appendix D for count 0 (offset 0, sign bit set)
RfcDigest0 == <<204, 147, 207, 24, 80, 141, 148, 147, 76, 100,
                182, 93, 139, 167, 102, 127, 183, 205, 228, 176>>

\* a digest with the last offset, 15, and the value 42 there
SmallDigest == [i \in 1..20 |-> CASE i \in 16..18 -> 0
                                  [] i = 19 -> 42
                                  [] OTHER -> 255]

Digests == <<RfcDigest0, SmallDigest>>

RECURSIVE SumBytes(_)
SumBytes(b) == IF b = <<>> THEN 0 ELSE Head(b) + SumBytes(Tail(b))

Fingerprint(key, msg) == (SumBytes(key) + SumBytes(msg)) % NSlots

\* byte i of the ASCII text "1234567890...", the secret of RFC 4226
SecretByte(i) == 48 + (i % 10)

\* the 20-byte secret "12345678901234567890" of RFC 4226 Appendix D
RfcKey == [i \in 1..20 |-> SecretByte(i)]

\* the HMAC-SHA-1 values of RFC 4226 Appendix D for counts 1..9, which are
\* the values hmac.digest gives for RfcKey and the 8-byte counts
\* 75a48a19d4cbe100644e8ac1397eea747a2d33ab, count 1
RfcDigest1 == <<117, 164, 138, 25, 212, 203, 225, 0, 100, 78,
                138, 193, 57, 126, 234, 116, 122, 45, 51, 171>>

\* 0bacb7fa082fef30782211938bc1c5e70416ff44, count 2
RfcDigest2 == <<11, 172, 183, 250, 8, 47, 239, 48, 120, 34,
                17, 147, 139, 193, 197, 231, 4, 22, 255, 68>>

\* 66c28227d03a2d5529262ff016a1e6ef76557ece, count 3
RfcDigest3 == <<102, 194, 130, 39, 208, 58, 45, 85, 41, 38,
                47, 240, 22, 161, 230, 239, 118, 85, 126, 206>>

\* a904c900a64b35909874b33e61c5938a8e15ed1c, count 4
RfcDigest4 == <<169, 4, 201, 0, 166, 75, 53, 144, 152, 116,
                179, 62, 97, 197, 147, 138, 142, 21, 237, 28>>

\* a37e783d7b7233c083d4f62926c7a25f238d0316, count 5
RfcDigest5 == <<163, 126, 120, 61, 123, 114, 51, 192, 131, 212,
                246, 41, 38, 199, 162, 95, 35, 141, 3, 22>>

\* bc9cd28561042c83f219324d3c607256c03272ae, count 6
RfcDigest6 == <<188, 156, 210, 133, 97, 4, 44, 131, 242, 25,
                50, 77, 60, 96, 114, 86, 192, 50, 114, 174>>

\* a4fb960c0bc06e1eabb804e5b397cdc4b45596fa, count 7
RfcDigest7 == <<164, 251, 150, 12, 11, 192, 110, 30, 171, 184,
                4, 229, 179, 151, 205, 196, 180, 85, 150, 250>>

\* 1b3c89f65e6c9e883012052823443f048b4332db, count 8
RfcDigest8 == <<27, 60, 137, 246, 94, 108, 158, 136, 48, 18,
                5, 40, 35, 68, 63, 4, 139, 67, 50, 219>>

\* 1637409809a679dc698207310c8c7fc07290d9e5, count 9
RfcDigest9 == <<22, 55, 64, 152, 9, 166, 121, 220, 105, 130,
                7, 49, 12, 140, 127, 192, 114, 144, 217, 229>>

RfcDigests == <<RfcDigest0, RfcDigest1, RfcDigest2, RfcDigest3, RfcDigest4,
                RfcDigest5, RfcDigest6, RfcDigest7, RfcDigest8, RfcDigest9>>

\* msg is the 8-byte big-endian form of a count the RFC lists
IsRfcCount(msg) ==
    /\ Len(msg) = 8
    /\ \A i \in 1..7 : msg[i] = 0
    /\ msg[8] < Len(RfcDigests)

\* hmac.digest(key, msg, hashlib.sha1): known where the RFC lists it, any
\* fixed function elsewhere
HmacDigest(key, msg) ==
    IF key = RfcKey /\ IsRfcCount(msg) THEN RfcDigests[msg[8] + 1]
    ELSE Digests[hmacTable[Fingerprint(key, msg)]]

----------------------------------------------------------------------------
(* Passcode generation *)

\* struct.pack with the bytes in little-endian order
pack_Q_little(counter) ==
    IF counter < 0 THEN Raise("struct.error")
    ELSE Return(PyBytesOf(
            [i \in 1..8 |->
                CASE i >= 5 -> 0
                  [] i = 4 -> (counter \div 16777216) % 256
                  [] i = 3 -> (counter \div 65536) % 256
                  [] i = 2 -> (counter \div 256) % 256
                  [] i = 1 -> counter % 256]))

\* struct.pack('>Q', counter): 8 bytes, big-endian; struct.error outside
\* 0..2^64-1.  The counters of the model are below 2^31, so the four high
\* bytes are zero.
pack_Q(counter) ==
    IF counter < 0 THEN Raise("struct.error")
    ELSE Return(PyBytesOf(
            [i \in 1..8 |->
                CASE i <= 4 -> 0
                  [] i = 5 -> (counter \div 16777216) % 256
                  [] i = 6 -> (counter \div 65536) % 256
                  [] i = 7 -> (counter \div 256) % 256
                  [] i = 8 -> counter % 256]))

\* struct.unpack('>I', b)[0] & 0x7fffffff for a 4-byte b: the mask clears the
\* top bit of the first byte
unpack_I_masked(b) ==
    (b[1] % 128) * 16777216 + b[2] * 65536 + b[3] * 256 + b[4]

\* dynamic truncation with the offset taken from the high half of the
\* last byte
Truncate_high(digest) ==
    LET pos == digest[20] \div 16
        base == unpack_I_masked(SubSeq(digest, pos + 1, pos + 4))
        token == base % 1000000
    IN  Format06d(token)

\* dynamic truncation of a 20-byte digest, lines 129-132
Truncate(digest) ==
    LET pos == digest[20] % 16
        base == unpack_I_masked(SubSeq(digest, pos + 1, pos + 4))
        token == base % 1000000
    IN  Format06d(token)

\* generate_hotp(secret, counter); the decoded key is kept with the outcome
generate_hotp(sec, counter) ==
    LET msg == pack_Q(counter)
        key == b32decode(sec)
    IN  IF Raised(msg) THEN [kind |-> "raise", exc |-> msg.exc, value |-> None, key |-> <<>>]
        ELSE IF Raised(key) THEN [kind |-> "raise", exc |-> key.exc, value |-> None, key |-> <<>>]
        ELSE [kind |-> "return", exc |-> "",
              value |-> PyStr(Truncate(HmacDigest(key.value.v, msg.value.v))),
              key |-> key.value.v]

\* generate_totp with the remaining seconds reduced modulo the period
generate_totp_wrap(sec, period, timestamp, now) ==
    LET ts == IF timestamp.t = "NoneType" THEN now ELSE timestamp.v
    IN  IF period = 0 THEN Raise("ZeroDivisionError")
        ELSE LET counter == ts \div period
                 remaining_seconds == (period - ts) % period
                 h == generate_hotp(sec, counter)
             IN  IF Raised(h) THEN Raise(h.exc)
                 ELSE Return(PyTuple(<<h.value, PyInt(remaining_seconds)>>))

\* generate_totp with the counter rounded up
generate_totp_ceil(sec, period, timestamp, now) ==
    LET ts == IF timestamp.t = "NoneType" THEN now ELSE timestamp.v
    IN  IF period = 0 THEN Raise("ZeroDivisionError")
        ELSE LET counter == (ts + period - 1) \div period
                 remaining_seconds == period - (ts % period)
                 h == generate_hotp(sec, counter)
             IN  IF Raised(h) THEN Raise(h.exc)
                 ELSE Return(PyTuple(<<h.value, PyInt(remaining_seconds)>>))

\* generate_totp(secret, period, timestamp); now is the value time.time()
\* gives when timestamp is None
generate_totp(sec, period, timestamp, now) ==
    LET ts == IF timestamp.t = "NoneType" THEN now ELSE timestamp.v
    IN  IF period = 0 THEN Raise("ZeroDivisionError")
        ELSE LET counter == ts \div period
                 remaining_seconds == period - (ts % period)
                 h == generate_hotp(sec, counter)
             IN  IF Raised(h) THEN Raise(h.exc)
                 ELSE Return(PyTuple(<<h.value, PyInt(remaining_seconds)>>))

\* OtpAuth.hotp, OtpAuth.totp
hotp(counter) == generate_hotp(secret, counter)
totp(period, timestamp, now) == generate_totp(secret, period, timestamp, now)

----------------------------------------------------------------------------
(* Validation *)

\* valid_code: str(code).isdigit() and len(str(code)) <= 6
valid_code(code) ==
    LET s == str(code)
    IN  /\ s # <<>>
        /\ \A i \in 1..Len(s) : IsDigitChar(s[i])
        /\ Len(s) <= 6

\* x ^ y and x | y on two bytes
XorByte(x, y) ==
    BitsValue([i \in 1..8 |-> (BitsOf(x, 8)[i] + BitsOf(y, 8)[i]) % 2], 1, 8)
OrByte(x, y) ==
    BitsValue([i \in 1..8 |-> IF BitsOf(x, 8)[i] + BitsOf(y, 8)[i] > 0 THEN 1 ELSE 0], 1, 8)

\* rv after `for x, y in zip(a, b): rv |= x ^ y` over the first n pairs
RECURSIVE OrOfXors(_, _, _)
OrOfXors(a, b, n) ==
    IF n = 0 THEN 0 ELSE OrByte(OrOfXors(a, b, n - 1), XorByte(a[n], b[n]))

\* zip(a, b) stops at the shorter of the two
ZipLen(a, b) == IF Len(a) <= Len(b) THEN Len(a) ELSE Len(b)

\* hmac.compare_digest of the standard library, on two byte strings
hmac_compare_digest(a, b) == a = b

\* the fallback without its test of the lengths
compare_digest_fallback_nolen(a, b) == OrOfXors(a, b, ZipLen(a, b)) = 0

\* the fallback of compare_digest, lines 167-174
compare_digest_fallback(a, b) ==
    IF Len(a) # Len(b) THEN FALSE
    ELSE OrOfXors(a, b, ZipLen(a, b)) = 0

\* compare_digest(a, b) where func is whether getattr finds
\* hmac.compare_digest
compare_digest_on(func, a, b) ==
    IF func THEN hmac_compare_digest(a, b) ELSE compare_digest_fallback(a, b)

\* compare_digest(a, b) on two byte strings: hmac.compare_digest exists on
\* every Python that has hmac.digest
compare_digest(a, b) == compare_digest_on(TRUE, a, b)

\* the outcome r of a validation, with the number of passcodes it computed
Counted(r, n) == [kind |-> r.kind, exc |-> r.exc, value |-> r.value, hotps |-> n]

\* OtpAuth.valid_hotp(code, last, trials)
valid_hotp(code, last, trials) ==
    IF ~valid_code(code) THEN Counted(Return(PyFalse), 0)
    ELSE
      LET n == int(code)
      IN  IF Raised(n) THEN Counted(Raise(n.exc), 0)
          ELSE
            LET codeb == bytes(n.value)
                RECURSIVE Loop(_)
                Loop(i) ==
                    IF i >= last + trials + 1 THEN Counted(Return(PyFalse), i - (last + 1))
                    ELSE LET h == hotp(i)
                         IN  IF Raised(h) THEN Counted(Raise(h.exc), i - last)
                             ELSE LET hb == bytes(h.value)
                                  IN  IF Raised(hb) THEN Counted(Raise(hb.exc), i - last)
                                      ELSE IF compare_digest(hb.value.v, codeb.value.v)
                                           THEN Counted(Return(PyInt(i)), i - last)
                                           ELSE Loop(i + 1)
            IN  IF Raised(codeb) THEN Counted(Raise(codeb.exc), 0) ELSE Loop(last + 1)

\* OtpAuth.valid_totp(code, period, timestamp): the arguments of
\* compare_digest are evaluated left to right, the passcode first
valid_totp(code, period, timestamp, now) ==
    IF ~valid_code(code) THEN Counted(Return(PyFalse), 0)
    ELSE
      LET t == totp(period, timestamp, now)
          computed == IF period = 0 THEN 0 ELSE 1
      IN  IF Raised(t) THEN Counted(Raise(t.exc), computed)
          ELSE
            LET tb == bytes(t.value)
            IN  IF Raised(tb) THEN Counted(Raise(tb.exc), computed)
                ELSE
                  LET n == int(code)
                  IN  IF Raised(n) THEN Counted(Raise(n.exc), computed)
                      ELSE LET codeb == bytes(n.value)
                           IN  IF Raised(codeb) THEN Counted(Raise(codeb.exc), computed)
                               ELSE Counted(Return(PyBool(compare_digest(tb.value.v, codeb.value.v))),
                                            computed)

----------------------------------------------------------------------------
(* Provisioning URI *)

UpperChars == <<"A", "B", "C", "D", "E", "F", "G", "H", "I", "J", "K", "L", "M",
                "N", "O", "P", "Q", "R", "S", "T", "U", "V", "W", "X", "Y", "Z">>
LowerChars == <<"a", "b", "c", "d", "e", "f", "g", "h", "i", "j", "k", "l", "m",
                "n", "o", "p", "q", "r", "s", "t", "u", "v", "w", "x", "y", "z">>

\* str.lower()
lower(s) ==
    [i \in 1..Len(s) |->
        IF \E k \in 1..26 : UpperChars[k] = s[i]
        THEN LowerChars[CHOOSE k \in 1..26 : UpperChars[k] = s[i]]
        ELSE s[i]]

RECURSIVE Join(_)
\* the characters of s as one string
Join(s) == IF s = <<>> THEN "" ELSE Head(s) \o Join(Tail(s))

\* '%s' % x for the values a counter takes
Percent_s(x) ==
    CASE x.t = "NoneType" -> "None"
      [] x.t = "int" -> ToString(x.v)
      [] OTHER -> Join(x.v)

\* to_uri that takes only a missing counter (None) for an absent one
to_uri_none_only(type, label, issuer, counter) ==
    LET ty == lower(type)
    IN  IF ty # <<"h", "o", "t", "p">> /\ ty # <<"t", "o", "t", "p">>
        THEN Raise("ValueError")
        ELSE IF ty = <<"h", "o", "t", "p">> /\ counter.t = "NoneType"
        THEN Raise("ValueError")
        ELSE LET ret == "otpauth://" \o Join(ty) \o "/" \o label \o "?secret="
                        \o Join(secret) \o "&issuer=" \o issuer
             IN  IF ty = <<"h", "o", "t", "p">>
                 THEN Return(PyStr(ret \o "&counter=" \o Percent_s(counter)))
                 ELSE Return(PyStr(ret))

\* to_uri that appends the counter whenever one was passed
to_uri_counter_passed(type, label, issuer, counter) ==
    LET ty == lower(type)
    IN  IF ty # <<"h", "o", "t", "p">> /\ ty # <<"t", "o", "t", "p">>
        THEN Raise("ValueError")
        ELSE IF ty = <<"h", "o", "t", "p">> /\ ~Truthy(counter)
        THEN Raise("ValueError")
        ELSE LET ret == "otpauth://" \o Join(ty) \o "/" \o label \o "?secret="
                        \o Join(secret) \o "&issuer=" \o issuer
             IN  IF Truthy(counter)
                 THEN Return(PyStr(ret \o "&counter=" \o Percent_s(counter)))
                 ELSE Return(PyStr(ret))

\* OtpAuth.to_uri(type, label, issuer, counter)
to_uri(type, label, issuer, counter) ==
    LET ty == lower(type)
    IN  IF ty # <<"h", "o", "t", "p">> /\ ty # <<"t", "o", "t", "p">>
        THEN Raise("ValueError")
        ELSE IF ty = <<"h", "o", "t", "p">> /\ ~Truthy(counter)
        THEN Raise("ValueError")
        ELSE LET ret == "otpauth://" \o Join(ty) \o "/" \o label \o "?secret="
                        \o Join(secret) \o "&issuer=" \o issuer
             IN  IF ty = <<"h", "o", "t", "p">>
                 THEN Return(PyStr(ret \o "&counter=" \o Percent_s(counter)))
                 ELSE Return(PyStr(ret))

----------------------------------------------------------------------------
(* Inputs *)

\* raw secrets: the prefixes of that text
RawSecrets == { [i \in 1..n |-> SecretByte(i)] : n \in 1..MaxSecretLen }

\* the passcodes the keyed hash of the model can give
PossibleCodes == [k \in 1..Len(Digests) |-> PyStr(Truncate(Digests[k]))]

\* codes a user may supply: well-formed ones, an int, and malformed ones
MalformedCodes == << PyStr(<<"a", "b", "c">>),
                     PyStr(<<"1", "2", "3", "4", "5", "6", "7">>),
                     PyStr(<<"1", Superscript2>>),
                     PyStr(<<>>),
                     PyInt(1234567) >>

CodeInputs == PossibleCodes \o <<PyStr(<<"4", "2">>), PyInt(42)>> \o MalformedCodes

\* a timestamp argument: None (the wall clock is read) or whole seconds
Timestamps == <<None>> \o [i \in 1..(MaxTime + 1) |-> PyInt(i - 1)]

TypeInputs == << <<"h", "o", "t", "p">>, <<"H", "O", "T", "P">>, <<"t", "o", "t", "p">>,
                 <<"T", "o", "t", "p">>, <<"o", "t", "p">>, <<>> >>

CounterInputs == <<None, PyInt(0), PyInt(7), PyStr(<<>>)>>

----------------------------------------------------------------------------
(* The calls *)

NoPrev == [counter |-> -1, code |-> <<>>]

\* no thread, no window and no record take part
EnvIdle ==
    /\ thr = <<>>
    /\ clock = 0
    /\ tv = <<>>
    /\ timers = {}
    /\ tv_updater = [set |-> FALSE, id |-> 0]
    /\ rec = <<>>
    /\ sinceSave = {}

\* no call on the OtpAuth object is observed
CallIdle ==
    /\ op = "idle"
    /\ args = <<>>
    /\ result = Return(None)
    /\ prev = NoPrev

\* the timestamp generate_totp works with
EffectiveTime(a) == IF a.timestamp.t = "NoneType" THEN a.now ELSE a.timestamp.v

\* the counter and the code of the passcode generation the recorded call
\* made, when it was a hotp or totp call that returned
Generation ==
    CASE op = "hotp" /\ Returned(result) ->
            [counter |-> args.counter, code |-> result.value.v]
      [] op = "totp" /\ Returned(result) ->
            [counter |-> EffectiveTime(args) \div args.period, code |-> result.value.v[1].v]
      [] OTHER -> NoPrev

Call(o, a, r) ==
    /\ op = "idle"
    /\ op' = o
    /\ args' = a
    /\ result' = r
    /\ UNCHANGED <<secret, raw, hmacTable, prev, envVars>>

\* the call returns to its caller
Done ==
    /\ op # "idle"
    /\ op' = "idle"
    /\ args' = <<>>
    /\ result' = Return(None)
    /\ prev' = Generation
    /\ UNCHANGED <<secret, raw, hmacTable, envVars>>

Hotp ==
    \E counter \in -1..MaxCounter :
        Call("hotp", [counter |-> counter], hotp(counter))

Totp ==
    \E period \in 0..MaxPeriod, t \in 1..Len(Timestamps), now \in 0..MaxTime :
        /\ Timestamps[t].t # "NoneType" => now = 0
        /\ Call("totp", [period |-> period, timestamp |-> Timestamps[t], now |-> now],
                totp(period, Timestamps[t], now))

ValidHotp ==
    \E c \in 1..Len(CodeInputs), last \in 0..MaxLast, trials \in 0..MaxTrials :
        Call("valid_hotp", [code |-> CodeInputs[c], last |-> last, trials |-> trials],
             valid_hotp(CodeInputs[c], last, trials))

ValidTotp ==
    \E c \in 1..Len(CodeInputs), period \in 1..MaxPeriod, t \in {2, 3, Len(Timestamps)} :
        Call("valid_totp", [code |-> CodeInputs[c], period |-> period,
                            timestamp |-> Timestamps[t], now |-> 0],
             valid_totp(CodeInputs[c], period, Timestamps[t], 0))

EncodedSecret ==
    \E b \in RawSecrets :
        Call("encoded_secret", [secret |-> b], Return(PyStr(encoded_secret(b))))

ToUri ==
    \E ty \in 1..Len(TypeInputs), c \in 1..Len(CounterInputs) :
        Call("to_uri", [type |-> TypeInputs[ty], label |-> "l", issuer |-> "i",
                        counter |-> CounterInputs[c]],
             to_uri(TypeInputs[ty], "l", "i", CounterInputs[c]))

\* OtpAuth(secret): the secret is Base32 text, with its pad characters
\* (b32encode) or without them (encoded_secret)
Init ==
    /\ raw \in RawSecrets
    /\ secret \in {b32encode(raw), encoded_secret(raw)}
    /\ hmacTable \in [0..(NSlots - 1) -> 1..Len(Digests)]
    /\ CallIdle
    /\ EnvIdle

Next == Hotp \/ Totp \/ ValidHotp \/ ValidTotp \/ EncodedSecret \/ ToUri \/ Done

Spec == Init /\ [][Next]_vars

----------------------------------------------------------------------------
(* compare_digest on its own *)

\* byte strings to compare
ByteStrings == UNION { [1..n -> {0, 1, 255}] : n \in 0..MaxDigestLen }

CompareDigest ==
    \E a \in ByteStrings, b \in ByteStrings, func \in BOOLEAN :
        Call("compare_digest", [a |-> a, b |-> b, func |-> func],
             Return(PyBool(compare_digest_on(func, a, b))))

\* no OtpAuth object takes part
InitDigest ==
    /\ raw = <<>>
    /\ secret = <<>>
    /\ hmacTable = [s \in 0..(NSlots - 1) |-> 1]
    /\ CallIdle
    /\ EnvIdle

NextDigest == CompareDigest \/ Done

SpecDigest == InitDigest /\ [][NextDigest]_vars

----------------------------------------------------------------------------
(* Concurrent calls on one OtpAuth object.  A method reads self.secret       *)
(* once and computes on its own locals; a thread is between its call and    *)
(* that read ("called"), between the read and its return ("done"), or       *)
(* outside any call ("idle").                                               *)

\* two threads share the object
Threads == {"t1", "t2"}

\* the calls the threads make, all with explicit timestamps
ConcCalls ==
    << [op |-> "hotp", counter |-> 1],
       [op |-> "totp", period |-> 1, timestamp |-> PyInt(2)],
       [op |-> "valid_hotp", code |-> PossibleCodes[1], last |-> 0, trials |-> 1],
       [op |-> "valid_totp", code |-> PossibleCodes[1], period |-> 1, timestamp |-> PyInt(2)],
       [op |-> "to_uri", type |-> <<"h", "o", "t", "p">>, counter |-> PyInt(7)],
       [op |-> "encoded_secret"] >>

\* the outcome of call c on the object as it is now
RunAlone(c) ==
    CASE c.op = "hotp" -> hotp(c.counter)
      [] c.op = "totp" -> totp(c.period, c.timestamp, 0)
      [] c.op = "valid_hotp" -> valid_hotp(c.code, c.last, c.trials)
      [] c.op = "valid_totp" -> valid_totp(c.code, c.period, c.timestamp, 0)
      [] c.op = "to_uri" -> to_uri(c.type, "l", "i", c.counter)
      [] c.op = "encoded_secret" -> Return(PyStr(encoded_secret(raw)))

ThreadIdle == [pc |-> "idle", call |-> 0, result |-> Return(None), overlapped |-> FALSE]

\* thread t enters a method
Begin(t) ==
    /\ thr[t].pc = "idle"
    /\ \E k \in 1..Len(ConcCalls) :
          thr' = [thr EXCEPT ![t] = [pc |-> "called", call |-> k,
                                     result |-> Return(None), overlapped |-> FALSE]]
    /\ UNCHANGED <<secret, raw, hmacTable, op, args, result, prev>>
    /\ UNCHANGED <<clock, tv, timers, tv_updater, rec, sinceSave>>

\* a method that also kept its secret, stripped of pad characters, in self
Run_keeps(t) ==
    /\ thr[t].pc = "called"
    /\ thr' = [thr EXCEPT ![t] = [pc |-> "done", call |-> thr[t].call,
                                   result |-> RunAlone(ConcCalls[thr[t].call]),
                                   overlapped |-> \E u \in Threads \ {t} : thr[u].pc # "idle"]]
    /\ secret' = StripPad(secret)
    /\ UNCHANGED <<raw, hmacTable, op, args, result, prev>>
    /\ UNCHANGED <<clock, tv, timers, tv_updater, rec, sinceSave>>

\* thread t reads self.secret and computes its outcome; overlapped records
\* whether another thread was inside a method at that moment
Run(t) ==
    /\ thr[t].pc = "called"
    /\ thr' = [thr EXCEPT ![t] = [pc |-> "done", call |-> thr[t].call,
                                   result |-> RunAlone(ConcCalls[thr[t].call]),
                                   overlapped |-> \E u \in Threads \ {t} : thr[u].pc # "idle"]]
    /\ UNCHANGED <<secret, raw, hmacTable, op, args, result, prev>>
    /\ UNCHANGED <<clock, tv, timers, tv_updater, rec, sinceSave>>

\* thread t returns to its caller
Finish(t) ==
    /\ thr[t].pc = "done"
    /\ thr' = [thr EXCEPT ![t] = ThreadIdle]
    /\ UNCHANGED <<secret, raw, hmacTable, op, args, result, prev>>
    /\ UNCHANGED <<clock, tv, timers, tv_updater, rec, sinceSave>>

\* one OtpAuth object, its secret with pad characters or without
InitConc ==
    /\ raw \in { r \in RawSecrets : Len(r) >= MaxSecretLen - 1 }
    /\ secret \in {b32encode(raw), encoded_secret(raw)}
    /\ hmacTable = [s \in 0..(NSlots - 1) |-> 1 + (s % 2)]
    /\ CallIdle
    /\ thr = [t \in Threads |-> ThreadIdle]
    /\ clock = 0
    /\ tv = <<>>
    /\ timers = {}
    /\ tv_updater = [set |-> FALSE, id |-> 0]
    /\ rec = <<>>
    /\ sinceSave = {}

NextConc == \E t \in Threads : Begin(t) \/ Run(t) \/ Finish(t)

SpecConc == InitConc /\ [][NextConc]_vars

----------------------------------------------------------------------------
(* main.py: OneTimePass, the credential kept in a record's extension field  *)
(* as JSON text.  A config is given by the document json.loads makes of     *)
(* it; a dict by what its four keys hold.                                   *)

\* the members of OTPType
OTPType(name) == [t |-> "OTPType", v |-> name]

\* OneTimePass(kind, name, secret, issuer)
OneTimePass(k, n, s, i) ==
    [t |-> "OneTimePass", v |-> [kind |-> k, name |-> n, secret |-> s, issuer |-> i]]

\* text that is no JSON document
InvalidJson == [t |-> "invalid", v |-> 0]

\* values of the key 'type': strings, a number, null
TypeValues ==
    << PyStr(<<"t", "o", "t", "p">>), PyStr(<<"H", "O", "T", "P">>),
       PyStr(<<"T", "o", "t", "p">>), PyStr(<<"x">>), PyStr(<<>>), PyInt(5), None >>

\* values of the keys 'name', 'secret' and 'issuer'
FieldValues == << PyStr(<<"v">>), PyStr(<<>>), None, PyInt(5) >>

\* what a dict holds under a key: entry k of vals, nothing when k = 0
Entry(vals, k) ==
    IF k = 0 THEN [has |-> FALSE, val |-> None] ELSE [has |-> TRUE, val |-> vals[k]]

JsonDict(ty, n, s, i) ==
    [t |-> "dict", v |-> [type |-> Entry(TypeValues, ty), name |-> Entry(FieldValues, n),
                          secret |-> Entry(FieldValues, s), issuer |-> Entry(FieldValues, i)]]

\* configs that are no JSON object
NonDicts == << InvalidJson, PyInt(5), PyStr(<<"v">>), None, [t |-> "list", v |-> 0] >>

\* json.loads(config)
json_loads(config) ==
    IF config.t = "invalid" THEN Raise("JSONDecodeError") ELSE Return(config)

\* cfg.pop(key)
pop(cfg, key) ==
    CASE cfg.t = "dict" ->
            IF cfg.v[key].has THEN Return(cfg.v[key].val) ELSE Raise("KeyError")
      [] cfg.t = "list" -> Raise("TypeError")
      [] OTHER -> Raise("AttributeError")

\* OneTimePass.type_from_str
type_from_str(kind) ==
    IF kind.t # "str" THEN Raise("AttributeError")
    ELSE IF lower(kind.v) = <<"t", "o", "t", "p">> THEN Return(OTPType("TOTP"))
    ELSE IF lower(kind.v) = <<"h", "o", "t", "p">> THEN Return(OTPType("HOTP"))
    ELSE Return(OTPType("UNKNOWN"))

\* the try block of from_json
from_json_try(config) ==
    LET cfg == json_loads(config)
    IN  IF Raised(cfg) THEN cfg
        ELSE LET ty == pop(cfg.value, "type")
             IN  IF Raised(ty) THEN ty
                 ELSE LET k == type_from_str(ty.value)
                          n == pop(cfg.value, "name")
                          s == pop(cfg.value, "secret")
                          i == pop(cfg.value, "issuer")
                      IN  IF Raised(k) THEN k
                          ELSE IF Raised(n) THEN n
                          ELSE IF Raised(s) THEN s
                          ELSE IF Raised(i) THEN i
                          ELSE Return(OneTimePass(k.value, n.value, s.value, i.value))

\* OneTimePass.from_json: every exception becomes None
from_json(config) ==
    LET r == from_json_try(config)
    IN  IF Raised(r) THEN Return(None) ELSE r

FromJsonDict ==
    \E ty \in 0..Len(TypeValues), n \in 0..Len(FieldValues),
       s \in 0..Len(FieldValues), i \in 0..Len(FieldValues) :
        Call("from_json", [config |-> JsonDict(ty, n, s, i)],
             from_json(JsonDict(ty, n, s, i)))

FromJsonOther ==
    \E k \in 1..Len(NonDicts) :
        Call("from_json", [config |-> NonDicts[k]], from_json(NonDicts[k]))

InitJson == InitDigest

NextJson == FromJsonDict \/ FromJsonOther \/ Done

SpecJson == InitJson /\ [][NextJson]_vars

----------------------------------------------------------------------------
(* An OtpAuth object with the secret of RFC 4226 Appendix D *)

\* the HOTP values the RFC lists for counts 0..9
RfcCodes == <<"755224", "287082", "359152", "969429", "338314",
              "254676", "287922", "162583", "399871", "520489">>

RfcHotp ==
    \E counter \in 0..(Len(RfcCodes) - 1) :
        Call("hotp", [counter |-> counter], hotp(counter))

\* totp() with the default period at an explicit time
RfcTotp ==
    \E t \in 0..MaxRfcTime :
        Call("totp", [period |-> DefaultPeriod, timestamp |-> PyInt(t), now |-> 0],
             totp(DefaultPeriod, PyInt(t), 0))

\* OtpAuth(base64.b32encode(b'12345678901234567890'))
InitRfc ==
    /\ raw = RfcKey
    /\ secret = b32encode(raw)
    /\ hmacTable \in [0..(NSlots - 1) -> 1..Len(Digests)]
    /\ CallIdle
    /\ EnvIdle

NextRfc == RfcHotp \/ RfcTotp \/ Done

SpecRfc == InitRfc /\ [][NextRfc]_vars

----------------------------------------------------------------------------
(* Dynamic truncation on its own *)

\* the four bytes at the offset: zero, all ones, the sign bit alone, 10^6,
\* the largest 31-bit value, 42
WindowValues == << <<0, 0, 0, 0>>, <<255, 255, 255, 255>>, <<128, 0, 0, 0>>,
                   <<0, 15, 66, 64>>, <<127, 255, 255, 255>>, <<0, 0, 0, 42>> >>

\* a 20-byte digest whose last byte has the halves high and offset, with the
\* bytes w at the offset (where they do not reach the last byte) and fill
\* everywhere else
TruncDigest(offset, high, w, fill) ==
    [i \in 1..20 |->
        CASE i = 20 -> 16 * high + offset
          [] i \in (offset + 1)..(offset + 4) -> w[i - offset]
          [] OTHER -> fill]

TruncateDigest ==
    \E offset \in 0..15, high \in {0, 8, 15}, k \in 1..Len(WindowValues), fill \in {0, 255} :
        Call("truncate", [digest |-> TruncDigest(offset, high, WindowValues[k], fill)],
             Return(PyStr(Truncate(TruncDigest(offset, high, WindowValues[k], fill)))))

InitTrunc == InitDigest

NextTrunc == TruncateDigest \/ Done

SpecTrunc == InitTrunc /\ [][NextTrunc]_vars

----------------------------------------------------------------------------
(* main.py: the passcode countdown of the tree view.  Two rows hold a TOTP  *)
(* credential with the secret of the OtpAuth object.  The clock is in whole *)
(* seconds; a callback scheduled with after(1000) runs when the clock       *)
(* reaches its due time, before the clock moves on.                         *)

Rows == {"I001", "I002"}

\* the extra column of a row: the type name, or 'code:remains'
TypeCell == [kind |-> "type", code |-> <<>>, remains |-> 0]
PasscodeCell(code, remains) == [kind |-> "passcode", code |-> code, remains |-> remains]

\* the handler that ran last is kept in op and args
UiCall(o, a) ==
    /\ op' = o
    /\ args' = a
    /\ result' = Return(None)
    /\ UNCHANGED <<secret, raw, hmacTable, prev, thr, rec, sinceSave>>

\* the id after() returns: one that no pending callback has and that
\* _tv_updater does not hold
NewId(pending) ==
    CHOOSE n \in 1..(MaxTimers + 2) :
        /\ \A tm \in pending : tm.id # n
        /\ tv_updater.id # n
        /\ \A m \in 1..(n - 1) : (\E tm \in pending : tm.id = m) \/ tv_updater.id = m

\* self.after(1000, lambda: self.update_passcode(rid, values, auth, code, remains))
After(pending, rid, code, remains) ==
    pending \cup {[id |-> NewId(pending), rid |-> rid, code |-> code,
                   remains |-> remains, due |-> clock + 1]}

\* show_passcode(rid, values, ext), lines 724-729
ShowPasscode(r) ==
    LET t == totp(DefaultPeriod, None, clock)
    IN  IF Raised(t) THEN UNCHANGED <<tv, timers, tv_updater>>
        ELSE /\ tv' = [tv EXCEPT ![r].ext = PasscodeCell(t.value.v[1].v, t.value.v[2].v)]
             /\ timers' = After(timers, r, t.value.v[1].v, t.value.v[2].v)
             /\ tv_updater' = [set |-> TRUE, id |-> NewId(timers)]

\* show_passcode(rid, values, ext, False), lines 731-732; after_cancel of an
\* id whose callback has run cancels nothing
HidePasscode(r) ==
    IF ~tv_updater.set THEN UNCHANGED <<tv, timers, tv_updater>>
    ELSE /\ timers' = { tm \in timers : tm.id # tv_updater.id }
         /\ tv' = [tv EXCEPT ![r].ext = TypeCell]
         /\ UNCHANGED tv_updater

\* on_treeview_click, a double click on the extra column of row r
OnTreeviewClick(r) ==
    /\ tv[r].exists
    /\ tv[r].ext.kind = "type" => Cardinality(timers) < MaxTimers
    /\ IF tv[r].ext.kind = "type" THEN ShowPasscode(r) ELSE HidePasscode(r)
    /\ UNCHANGED clock
    /\ UiCall("on_treeview_click", [rid |-> r])

\* update_passcode(rid, values, otp_auth, code, remains), run by callback tm
UpdatePasscode(tm) ==
    /\ tm \in timers
    /\ tm.due = clock
    /\ IF ~tv[tm.rid].exists
       THEN /\ timers' = timers \ {tm}
            /\ UNCHANGED <<tv, tv_updater>>
       ELSE LET t == totp(DefaultPeriod, None, clock)
                code == IF tm.remains = 0 THEN t.value.v[1].v ELSE tm.code
                remains == IF tm.remains = 0 THEN t.value.v[2].v ELSE tm.remains - 1
            IN  IF tm.remains = 0 /\ Raised(t)
                THEN /\ timers' = timers \ {tm}
                     /\ UNCHANGED <<tv, tv_updater>>
                ELSE /\ tv' = [tv EXCEPT ![tm.rid].ext = PasscodeCell(code, remains)]
                     /\ timers' = After(timers \ {tm}, tm.rid, code, remains)
                     /\ tv_updater' = [set |-> TRUE, id |-> NewId(timers \ {tm})]
    /\ UNCHANGED clock
    /\ UiCall("update_passcode", [rid |-> tm.rid])

\* self._tv.delete(selected): row r leaves the tree
DeleteRow(r) ==
    /\ tv[r].exists
    /\ tv' = [tv EXCEPT ![r].exists = FALSE]
    /\ UNCHANGED <<clock, timers, tv_updater>>
    /\ UiCall("delete", [rid |-> r])

\* a second passes; the callbacks that are due have run
Tick ==
    /\ clock < DefaultPeriod + UiSpan
    /\ \A tm \in timers : tm.due > clock
    /\ clock' = clock + 1
    /\ UNCHANGED <<tv, timers, tv_updater>>
    /\ UiCall("tick", <<>>)

\* the window with two rows, none showing a passcode; _tv_updater is not
\* assigned before the first passcode is shown
InitUi ==
    /\ raw = RfcKey
    /\ secret = b32encode(raw)
    /\ hmacTable = [s \in 0..(NSlots - 1) |-> 1]
    /\ CallIdle
    /\ thr = <<>>
    /\ clock = DefaultPeriod - UiLead
    /\ tv = [r \in Rows |-> [exists |-> TRUE, ext |-> TypeCell]]
    /\ timers = {}
    /\ tv_updater = [set |-> FALSE, id |-> 0]
    /\ rec = <<>>
    /\ sinceSave = {}

NextUi ==
    \/ \E r \in Rows : OnTreeviewClick(r)
    \/ \E tm \in timers : UpdatePasscode(tm)
    \/ \E r \in Rows : DeleteRow(r)
    \/ Tick

SpecUi == InitUi /\ [][NextUi]_vars

----------------------------------------------------------------------------
(* PassDB.py: a KeychainRecord and the two operations of PassDatabase that  *)
(* save it.  Whether the database accepts a statement is its own affair:    *)
(* it rejects NULL in loc and usr, and may fail for any other reason.       *)

\* KeychainColumn.loc, .usr, .pwd
Fields == {"loc", "usr", "pwd"}

\* values of a field: None or text
FieldNone == [t |-> "NoneType", v |-> ""]
Text(s) == [t |-> "str", v |-> s]
FieldValues3 == {FieldNone, Text("a"), Text("b")}

\* KeychainRecord(location, username, password)
KeychainRecord(location, username, password) ==
    [sn |-> 0, loc |-> location, usr |-> username, pwd |-> password, dirty |-> {}]

\* a setter that marks the field whether or not the value differs
setter_always(r, f, value) ==
    [[r EXCEPT ![f] = value] EXCEPT !.dirty = r.dirty \cup {f}]

\* the setters of loc, usr and pwd, lines 42-69
setter(r, f, value) ==
    IF r[f] = value THEN r
    ELSE [[r EXCEPT ![f] = value] EXCEPT !.dirty = r.dirty \cup {f}]

\* KeychainRecord.after_saving
after_saving(r) == [r EXCEPT !.dirty = {}]

\* the schema: loc TEXT NOT NULL, usr TEXT NOT NULL, pwd TEXT
NotNullOk(r, cols) ==
    \A f \in cols \cap {"loc", "usr"} : r[f].t # "NoneType"

\* the handler that ran last is kept in op and args
DbCall(o, a) ==
    /\ op' = o
    /\ args' = a
    /\ result' = Return(None)
    /\ UNCHANGED <<secret, raw, hmacTable, prev, thr, clock, tv, timers, tv_updater>>

\* record.loc = value, record.usr = value, record.pwd = value
SetField ==
    \E f \in Fields, value \in FieldValues3 :
        /\ rec' = setter(rec, f, value)
        /\ sinceSave' = IF rec[f] # value THEN sinceSave \cup {f} ELSE sinceSave
        /\ DbCall("set", [field |-> f, value |-> value, changed |-> rec[f] # value])

\* PassDatabase.insert(record); db is whether the database has no other
\* reason to fail
Insert ==
    \E db \in BOOLEAN, rowid \in 1..MaxRowId :
        LET saved == db /\ NotNullOk(rec, Fields)
        IN  /\ rec' = IF saved THEN after_saving([rec EXCEPT !.sn = rowid]) ELSE rec
            /\ sinceSave' = IF saved THEN {} ELSE sinceSave
            /\ DbCall("insert", [saved |-> saved])

\* PassDatabase.update(record): no statement when no field is unsaved
Update ==
    \E db \in BOOLEAN :
        LET cols == rec.dirty
            saved == cols # {} /\ db /\ NotNullOk(rec, cols)
        IN  /\ rec' = IF saved THEN after_saving(rec) ELSE rec
            /\ sinceSave' = IF saved THEN {} ELSE sinceSave
            /\ DbCall("update", [saved |-> saved])

\* a record as the dialogs and PassDatabase.query construct it
InitDb ==
    /\ raw = <<>>
    /\ secret = <<>>
    /\ hmacTable = [s \in 0..(NSlots - 1) |-> 1]
    /\ CallIdle
    /\ thr = <<>>
    /\ clock = 0
    /\ tv = <<>>
    /\ timers = {}
    /\ tv_updater = [set |-> FALSE, id |-> 0]
    /\ \E l \in FieldValues3 \ {FieldNone}, u \in FieldValues3, p \in FieldValues3 :
          rec = KeychainRecord(l, u, p)
    /\ sinceSave = {}

NextDb == SetField \/ Insert \/ Update

SpecDb == InitDb /\ [][NextDb]_vars

----------------------------------------------------------------------------
(* Properties *)

\* the secret is Base32 text the generator can decode
DecodableSecret == Returned(b32decode(secret))

\* the counters valid_hotp is to try
Window == (args.last + 1)..(args.last + args.trials)

\* counter c generates the code that was supplied
Matches(c) == Returned(hotp(c)) /\ hotp(c).value.v = str(args.code)

\* the call returned a counter
ReturnedCounter == Returned(result) /\ result.value.t = "int"

\* the call returned False
ReturnedFalse == Returned(result) /\ SameValue(result.value, PyFalse)

\* the text of the code has a character that is not a decimal digit, or
\* more than 6 characters
Malformed(code) ==
    LET s == str(code)
    IN  (\E i \in 1..Len(s) : ~IsDecimalChar(s[i])) \/ Len(s) > 6

\* C1: when the supplied code is the passcode of counter last+k, for a k
\* in 1..trials, valid_hotp returns the counter last+k.
C1_ValidHotpReturnsCounter ==
    (op = "valid_hotp" /\ args.code.t = "str") =>
        \A k \in 1..args.trials :
            Matches(args.last + k) =>
                (ReturnedCounter /\ result.value.v = args.last + k)

\* C2: valid_hotp stops at the first match: when some counter of the window
\* generates the supplied code it returns a counter, and a counter it returns
\* lies in the window, generates the code, and no smaller counter of the
\* window does.
C2_ValidHotpFirstMatch ==
    (op = "valid_hotp" /\ DecodableSecret) =>
        /\ (valid_code(args.code) /\ \E c \in Window : Matches(c)) => ReturnedCounter
        /\ ReturnedCounter =>
              /\ result.value.v \in Window
              /\ Matches(result.value.v)
              /\ \A c \in Window : c < result.value.v => ~Matches(c)

\* C3: for a supplied code of decimal digits, valid_hotp returns False when
\* no counter of the window generates the code, and never returns a counter
\* outside the window.
C3_ValidHotpNoMatch ==
    (op = "valid_hotp" /\ DecodableSecret /\ ~Malformed(args.code)) =>
        /\ (~ \E c \in Window : Matches(c)) => ReturnedFalse
        /\ ReturnedCounter => result.value.v \in Window

\* C4: for a code that passes the guard and a period > 0, valid_totp returns
\* True when the passcode of totp(period, timestamp) is the supplied text
\* and False otherwise.
C4_ValidTotpIsStringEquality ==
    (op = "valid_totp" /\ DecodableSecret /\ valid_code(args.code) /\ args.period > 0) =>
        LET expected == totp(args.period, args.timestamp, args.now).value.v[1].v
        IN  /\ Returned(result)
            /\ result.value.t = "bool"
            /\ (result.value.v = 1) <=> (expected = str(args.code))

\* C5: for a malformed code valid_hotp and valid_totp return False, raise
\* nothing and compute no passcode.
C5_MalformedCodeRejected ==
    (op \in {"valid_hotp", "valid_totp"} /\ Malformed(args.code)) =>
        (ReturnedFalse /\ result.hotps = 0)

\* C6: the remaining seconds totp returns are period - (timestamp mod
\* period): between 1 and period, and period at a multiple of the period.
C6_RemainingSeconds ==
    (op = "totp" /\ Returned(result)) =>
        LET ts == EffectiveTime(args)
            remaining == result.value.v[2].v
        IN  /\ remaining = args.period - (ts % args.period)
            /\ remaining \in 1..args.period
            /\ (ts % args.period = 0) => remaining = args.period

\* a totp call returned at a later multiple of a period above 1
C6_Witness ==
    /\ op = "totp" /\ Returned(result)
    /\ args.period > 1 /\ EffectiveTime(args) > 0
    /\ EffectiveTime(args) % args.period = 0
    /\ result.value.v[2].v = args.period

\* C7: the code totp returns is hotp(floor(timestamp / period)), so it is
\* the code the call before gave for the same counter.
C7_TotpIsHotpOfSlot ==
    (op = "totp" /\ Returned(result)) =>
        LET slot == EffectiveTime(args) \div args.period
            code == result.value.v[1].v
        IN  /\ Returned(hotp(slot)) /\ code = hotp(slot).value.v
            /\ (prev.counter = slot) => prev.code = code

\* a totp call inside a slot, after a generation for the same counter
C7_Witness ==
    /\ op = "totp" /\ Returned(result)
    /\ EffectiveTime(args) % args.period # 0
    /\ EffectiveTime(args) \div args.period > 0
    /\ prev.counter = EffectiveTime(args) \div args.period

\* C8: hotp returns text of exactly 6 decimal digits, the same text as the
\* call before gave for the same counter.
C8_HotpSixDigits ==
    (op = "hotp" /\ Returned(result)) =>
        /\ result.value.t = "str"
        /\ Len(result.value.v) = 6
        /\ \A i \in 1..Len(result.value.v) : IsDecimalChar(result.value.v[i])
        /\ (prev.counter = args.counter) => prev.code = result.value.v

\* a hotp call gave a zero-padded code, after a generation for its counter
C8_Witness ==
    /\ op = "hotp" /\ Returned(result)
    /\ result.value.v[1] = "0"
    /\ prev.counter = args.counter

\* C9: a secret made by encoded_secret is decoded by the generator to the
\* bytes it was made from.
C9_EncodeDecodeRoundTrip ==
    (op = "hotp" /\ secret = encoded_secret(raw) /\ args.counter >= 0) =>
        (Returned(result) /\ result.key = raw)

\* type is name, in any case of its letters
IsTypeName(type, lo, up) ==
    Len(type) = 4 /\ \A i \in 1..4 : type[i] = lo[i] \/ type[i] = up[i]

IsHotpName(type) == IsTypeName(type, <<"h", "o", "t", "p">>, <<"H", "O", "T", "P">>)
IsTotpName(type) == IsTypeName(type, <<"t", "o", "t", "p">>, <<"T", "O", "T", "P">>)

\* the counter is absent (None) or falsy (0, empty text)
AbsentOrFalsy(counter) ==
    \/ counter.t = "NoneType"
    \/ counter.t = "int" /\ counter.v = 0
    \/ counter.t = "str" /\ counter.v = <<>>

\* C10: to_uri raises ValueError exactly when the type is neither hotp nor
\* totp in any case, or it is hotp and the counter is absent or falsy;
\* otherwise it returns.
C10_ToUriFailsExactlyWhen ==
    (op = "to_uri") =>
        /\ Raised(result) <=>
              \/ ~IsHotpName(args.type) /\ ~IsTotpName(args.type)
              \/ IsHotpName(args.type) /\ AbsentOrFalsy(args.counter)
        /\ Raised(result) => result.exc = "ValueError"
        /\ Returned(result) => result.value.t = "str"

\* to_uri('HOTP', 'l', 'i', 0) raised
C10_Witness ==
    /\ op = "to_uri" /\ Raised(result)
    /\ IsHotpName(args.type)
    /\ args.counter.t = "int" /\ args.counter.v = 0


\* C11: a URI that to_uri returns is otpauth://{type}/{label}?secret=
\* {secret}&issuer={issuer} with the type in lower case, followed by
\* &counter={counter} exactly when the type is hotp.
C11_ToUriFormat ==
    (op = "to_uri" /\ Returned(result)) =>
        LET tail == "/" \o args.label \o "?secret=" \o Join(secret)
                    \o "&issuer=" \o args.issuer
        IN  /\ IsHotpName(args.type) =>
                  result.value.v = "otpauth://hotp" \o tail \o "&counter="
                                   \o ToString(args.counter.v)
            /\ IsTotpName(args.type) => result.value.v = "otpauth://totp" \o tail

\* to_uri('Totp', 'l', 'i', 7) returned: a totp URI though a counter was passed
C11_Witness ==
    /\ op = "to_uri" /\ Returned(result)
    /\ IsTotpName(args.type) /\ args.type[1] = "T"
    /\ args.counter.t = "int" /\ args.counter.v = 7


\* C12: compare_digest returns a boolean: False when the lengths differ,
\* and for equal lengths True exactly when the two byte strings are equal
\* at every position.
C12_CompareDigest ==
    (op = "compare_digest") =>
        /\ Returned(result) /\ result.value.t = "bool"
        /\ Len(args.a) # Len(args.b) => result.value.v = 0
        /\ Len(args.a) = Len(args.b) =>
              ((result.value.v = 1) <=> \A i \in 1..Len(args.a) : args.a[i] = args.b[i])

\* the fallback compared a byte string with a longer one that starts with it
C12_Witness ==
    /\ op = "compare_digest" /\ ~args.func
    /\ Len(args.a) > 0 /\ Len(args.a) < Len(args.b)
    /\ \A i \in 1..Len(args.a) : args.a[i] = args.b[i]
    /\ ReturnedFalse


\* C13: no step of a call changes the object's secret, and under every
\* interleaving each call's outcome is the one it has when run alone.
C13_CallsDoNotInterfere ==
    [][ /\ secret' = secret
        /\ \A t \in Threads :
              thr'[t].pc = "done" =>
                  thr'[t].result = RunAlone(ConcCalls[thr'[t].call]) ]_vars

\* totp(1, 2) returned in thread t1 while thread t2 was inside valid_hotp
C13_Witness ==
    /\ thr["t1"].pc = "done" /\ thr["t1"].overlapped
    /\ ConcCalls[thr["t1"].call].op = "totp" /\ Returned(thr["t1"].result)
    /\ thr["t2"].pc = "done" /\ ConcCalls[thr["t2"].call].op = "valid_hotp"


\* C14: from_json never raises, and what it returns is None or a credential
\* whose type is HOTP or TOTP and whose name, secret and issuer are present.
C14_FromJsonAllOrNothing ==
    (op = "from_json") =>
        /\ Returned(result)
        /\ \/ result.value.t = "NoneType"
           \/ /\ result.value.t = "OneTimePass"
              /\ result.value.v.kind.v \in {"HOTP", "TOTP"}
              /\ result.value.v.name.t # "NoneType"
              /\ result.value.v.secret.t # "NoneType"
              /\ result.value.v.issuer.t # "NoneType"


\* C15: with the Base32 encoding of '12345678901234567890' as the secret,
\* hotp of the counters 0..9 returns the ten values of RFC 4226 Appendix D.
C15_RfcVectors ==
    (op = "hotp" /\ raw = RfcKey /\ args.counter \in 0..9) =>
        /\ Returned(result)
        /\ Join(result.value.v) = RfcCodes[args.counter + 1]

\* hotp(9) returned on the object with the RFC secret
C15_Witness ==
    /\ op = "hotp" /\ args.counter = 9
    /\ Join(secret) = "GEZDGNBVGY3TQOJQGEZDGNBVGY3TQOJQ"
    /\ Returned(result)


\* C16: for a 20-byte digest the offset is the low four bits of its last
\* byte, the four bytes from the offset lie inside the digest, and the code
\* is their big-endian value without the top bit, modulo 10^6, as six
\* decimal digits.
C16_DynamicTruncation ==
    (op = "truncate") =>
        LET d == args.digest
            offset == BitsValue(BitsOf(d[20], 8), 5, 4)
            slice == SubSeq(d, offset + 1, offset + 4)
            value == BitsValue(BytesToBits(slice), 2, 31)
        IN  /\ Len(d) = 20
            /\ offset + 4 <= Len(d)
            /\ Len(slice) = 4
            /\ Returned(result)
            /\ Len(result.value.v) = 6
            /\ \A i \in 1..6 : IsDecimalChar(result.value.v[i])
            /\ IntOfDigits(result.value.v) = value % 1000000

\* offset 15 with the high half of the last byte set, all ones at the offset:
\* 0x7fffffff mod 10^6
C16_Witness ==
    /\ op = "truncate"
    /\ args.digest[20] = 255
    /\ SubSeq(args.digest, 16, 19) = <<255, 255, 255, 255>>
    /\ Returned(result) /\ Join(result.value.v) = "483647"


\* the passcode of the TOTP slot that contains the current time
CurrentCode == totp(DefaultPeriod, PyInt(clock), 0).value.v[1].v

\* C17: after every tick of the countdown of a row that displays a passcode,
\* the displayed code is the TOTP code of the slot that contains the current
\* time.
C17_DisplayedCodeIsCurrent ==
    (op = "update_passcode" /\ tv[args.rid].exists
        /\ tv[args.rid].ext.kind = "passcode") =>
            tv[args.rid].ext.code = CurrentCode

\* C18: at most one countdown callback is pending, and the display of a row
\* changes from the type name to a passcode only by a double click on that
\* row, never by a pending callback.
C18_OneCountdown ==
    [][ /\ Cardinality(timers') <= 1
        /\ \A r \in Rows :
              (tv[r].ext.kind = "type" /\ tv'[r].ext.kind = "passcode") =>
                  (op' = "on_treeview_click" /\ args'.rid = r) ]_vars


\* C19: a field is in unsaved_fields exactly when a setter changed it since
\* construction or the last successful save; assigning an equal value leaves
\* unsaved_fields as it is, a successful insert or update empties it, and a
\* failed one leaves it as it is.
C19_ChangeTracking ==
    [][ /\ rec'.dirty = sinceSave'
        /\ (op' = "set" /\ ~args'.changed) => rec'.dirty = rec.dirty
        /\ (op' \in {"insert", "update"} /\ args'.saved) => rec'.dirty = {}
        /\ (op' \in {"insert", "update"} /\ ~args'.saved) => rec'.dirty = rec.dirty ]_vars

\* an update of a record whose usr was set to None failed and left usr and
\* pwd unsaved
C19_Witness ==
    /\ op = "update" /\ ~args.saved
    /\ rec.usr.t = "NoneType"
    /\ rec.dirty = {"usr", "pwd"}

====
